---- MODULE Spec2Model ----
(***************************************************************************)
(* CSV snapshot loader of dashboard_adn1: the upload handlers that replace *)
(* the contents of the raw Jira table from an uploaded CSV file, modelled  *)
(* as processes whose steps are the handlers' awaited calls, against a     *)
(* Postgres store with sessions, transactions and the table lock.          *)
(***************************************************************************)
EXTENDS Integers, Sequences, FiniteSets, TLC

(***************************************************************************)
(* Text.  A string is a sequence of characters; a character is a string of *)
(* length one, except the two below that stand for one code point each.    *)
(***************************************************************************)
\* U+00F1, LATIN SMALL LETTER N WITH TILDE (precomposed)
NTilde == "U+00F1"
\* U+0303, COMBINING TILDE
CombTilde == "U+0303"

LowerSeq == <<"a","b","c","d","e","f","g","h","i","j","k","l","m",
              "n","o","p","q","r","s","t","u","v","w","x","y","z">>
UpperSeq == <<"A","B","C","D","E","F","G","H","I","J","K","L","M",
              "N","O","P","Q","R","S","T","U","V","W","X","Y","Z">>
Digits == {"0","1","2","3","4","5","6","7","8","9"}
LowerAlpha == {LowerSeq[k] : k \in 1..26}
\* the characters String.prototype.trim and the regex class \s remove
Whitespace == {" "}
\* the range U+0300..U+036F of the regex that strips the marks
CombiningMarks == {CombTilde}
\* the class [a-z0-9_]
WordChars == LowerAlpha \cup Digits \cup {"_"}

RECURSIVE Concat(_)
\* the strings of ss joined: a string with each character replaced by a
\* string is Concat of the replacements
Concat(ss) == IF ss = <<>> THEN <<>> ELSE Head(ss) \o Concat(Tail(ss))

RECURSIVE DropWhileIn(_, _)
DropWhileIn(s, cls) ==
  IF s # <<>> /\ Head(s) \in cls THEN DropWhileIn(Tail(s), cls) ELSE s

Reverse(s) == [k \in 1..Len(s) |-> s[Len(s) + 1 - k]]

\* s without its leading and trailing characters of cls: trim() for
\* Whitespace, replace(/^_+|_+$/g, '') for {"_"}
StripBoth(s, cls) == Reverse(DropWhileIn(Reverse(DropWhileIn(s, cls)), cls))

\* String.prototype.normalize('NFKD') on one character and on a string
NfkdChar(c) == IF c = NTilde THEN <<"n", CombTilde>> ELSE <<c>>
Nfkd(s) == Concat([k \in DOMAIN s |-> NfkdChar(s[k])])

\* String.prototype.toLowerCase on one character
LowerOf == [c \in {UpperSeq[k] : k \in 1..26} |->
              LowerSeq[CHOOSE k \in 1..26 : UpperSeq[k] = c]]
LowerChar(c) == IF c \in DOMAIN LowerOf THEN <<LowerOf[c]>> ELSE <<c>>
ToLower(s) == Concat([k \in DOMAIN s |-> LowerChar(s[k])])

RECURSIVE ReplaceRuns(_, _, _)
\* replace(/[^keep]+/g, rep): every maximal run of characters outside keep
\* becomes rep
ReplaceRuns(s, keep, rep) ==
  IF s = <<>> THEN <<>>
  ELSE IF Head(s) \in keep THEN <<Head(s)>> \o ReplaceRuns(Tail(s), keep, rep)
  ELSE rep \o ReplaceRuns(DropWhileIn(s, {c \in {s[k] : k \in 1..Len(s)} : c \notin keep}), keep, rep)

RECURSIVE ReplaceRunsIn(_, _, _)
\* replace(/[cls]+/g, rep): every maximal run of characters of cls becomes rep
ReplaceRunsIn(s, cls, rep) ==
  IF s = <<>> THEN <<>>
  ELSE IF Head(s) \notin cls THEN <<Head(s)>> \o ReplaceRunsIn(Tail(s), cls, rep)
  ELSE rep \o ReplaceRunsIn(DropWhileIn(s, cls), cls, rep)

\* replace(/[^keep]/g, ''): the characters outside keep are removed
KeepOnly(s, keep) == SelectSeq(s, LAMBDA c : c \in keep)

\* replace(/[\u0300-\u036f]/g, '')
StripMarks(s) == SelectSeq(s, LAMBDA c : c \notin CombiningMarks)

\* sanitize of the schema-reconciling handlers
sanitize(name) ==
  LET trimmed == StripBoth(name, Whitespace)
      nfkd    == Nfkd(trimmed)
      nomarks == StripMarks(nfkd)
      lower   == ToLower(nomarks)
      under   == ReplaceRuns(lower, WordChars, <<"_">>)
  IN  StripBoth(under, {"_"})

\* sqlId of the dynamic-header handler: no Unicode normalisation
sqlId(s) ==
  LET trimmed == StripBoth(s, Whitespace)
      lower   == ToLower(trimmed)
      under   == ReplaceRuns(lower, WordChars, <<"_">>)
  IN  StripBoth(under, {"_"})

\* mapColumns of the table-creating handler, for one column name
mapColumn(c) ==
  LET trimmed == StripBoth(c, Whitespace)
      lower   == ToLower(trimmed)
      under   == ReplaceRunsIn(lower, Whitespace, <<"_">>)
  IN  KeepOnly(under, WordChars)

(***************************************************************************)
(* Bounds of the model and the program's constants.                        *)
(***************************************************************************)
\* database sessions the store accepts (pooled or freshly opened)
NConns == 2
\* connection pools one process constructs in one behaviour
MaxPools == 2
\* names one listing of the KPI directory holds
MaxListing == 3
\* statements the store may fail for an outside reason (constraint
\* violation, lost connection) in one behaviour
MaxFaults == 2
\* the largest file takes this many batches
MaxBatches == 2
\* the widest INSERT column list of the batch-loop specification
MaxCols == 61

\* the request slots: the concurrency the claims speak of is two loads
Reqs == {1, 2}
Conns == 1..NConns

Handlers == {"reconcile", "reconcileKpi", "upsert", "fixed", "dynamic"}

\* rows per INSERT statement of each handler
batchSize(h) == IF h = "dynamic" THEN 500 ELSE 1000

Min(a, b) == IF a < b THEN a ELSE b
Range(s) == {s[k] : k \in 1..Len(s)}
NoDup(s) == \A j, k \in 1..Len(s) : s[j] = s[k] => j = k

(***************************************************************************)
(* The store: one destination table in a Postgres database.               *)
(*   columns  the table's columns in ordinal order, <<>> when the table    *)
(*            does not exist                                               *)
(*   table    the committed rows, as slices [src, lo, hi): the records     *)
(*            lo..hi-1 of the file src, in insertion order                 *)
(*   txn      per session: "none", "open" or "aborted"                     *)
(*   pend     per session: the uncommitted effects of its transaction      *)
(*   lock     the session holding the table's ACCESS EXCLUSIVE lock        *)
(*            (taken by TRUNCATE inside a transaction), 0 when free        *)
(***************************************************************************)
NoPend == [trunc |-> FALSE, rows |-> <<>>]
NoError == [stmt |-> "none", why |-> "none"]
Error(stmt, why) == [stmt |-> stmt, why |-> why]

Slice(f, lo, hi) == [src |-> f, lo |-> lo, hi |-> hi]

\* a statement: its kind, the columns it names (INSERT, CREATE TABLE) and
\* the rows it carries (INSERT)
Stmt(kind, cols, rows) == [kind |-> kind, cols |-> cols, rows |-> rows]
Plain(kind) == Stmt(kind, <<>>, <<>>)

\* the session ends its transaction without effect
EndTxn(d, c) ==
  [d EXCEPT !.txn[c] = "none", !.pend[c] = NoPend,
            !.lock = IF d.lock = c THEN 0 ELSE d.lock]

\* a TRUNCATE or INSERT waits while another session holds the table lock
Blocked(d, c, kind) == kind \in {"TRUNCATE", "INSERT"} /\ d.lock \notin {0, c}

\* the error the store raises for the statement by itself, "none" if none
StmtError(d, st) ==
  CASE st.kind \in {"TRUNCATE", "INSERT"} /\ d.columns = <<>> -> "undefined_table"
    [] st.kind = "INSERT" /\ ~ NoDup(st.cols) -> "duplicate_column"
    [] st.kind = "INSERT" /\ ~ (Range(st.cols) \subseteq Range(d.columns)) -> "undefined_column"
    [] st.kind = "CREATE" /\ d.columns = <<>> /\ ~ NoDup(st.cols) -> "duplicate_column"
    [] OTHER -> "none"

\* the effect of a statement that succeeds
Apply(d, c, st) ==
  LET inTxn == d.txn[c] = "open"
  IN CASE st.kind = "BEGIN" ->
            IF inTxn THEN d ELSE [d EXCEPT !.txn[c] = "open", !.pend[c] = NoPend]
       [] st.kind = "TRUNCATE" ->
            IF inTxn
              THEN [d EXCEPT !.pend[c] = [trunc |-> TRUE, rows |-> <<>>], !.lock = c]
              ELSE [d EXCEPT !.table = <<>>]
       [] st.kind = "INSERT" ->
            IF inTxn
              THEN [d EXCEPT !.pend[c].rows = Append(@, st.rows)]
              ELSE [d EXCEPT !.table = Append(@, st.rows)]
       [] st.kind = "COMMIT" ->
            IF inTxn
              THEN EndTxn([d EXCEPT !.table =
                     (IF d.pend[c].trunc THEN <<>> ELSE @) \o d.pend[c].rows], c)
              ELSE d
       [] st.kind = "CREATE" ->
            IF d.columns = <<>> THEN [d EXCEPT !.columns = st.cols] ELSE d
       [] OTHER -> d

\* client.query(st) on session c; fault: the store fails the statement for
\* an outside reason.  The result is the store afterwards and the error
\* thrown (NoError when the query resolves).
Query(d, c, st, fault) ==
  LET natural == StmtError(d, st)
      failed(why) ==
        [db  |-> IF st.kind = "COMMIT" THEN EndTxn(d, c)
                 ELSE IF d.txn[c] = "open" THEN [d EXCEPT !.txn[c] = "aborted"]
                 ELSE d,
         err |-> Error(st.kind, why)]
  IN CASE st.kind = "ROLLBACK" ->
            \* a ROLLBACK fails only with its connection, and the server then
            \* rolls the session's transaction back all the same
            [db |-> EndTxn(d, c),
             err |-> IF fault THEN Error("ROLLBACK", "connection_lost") ELSE NoError]
       [] st.kind = "COMMIT" /\ d.txn[c] = "aborted" /\ ~ fault ->
            [db |-> EndTxn(d, c), err |-> NoError]
       [] st.kind # "ROLLBACK" /\ d.txn[c] = "aborted" /\ ~ (st.kind = "COMMIT" /\ ~ fault) ->
            [db |-> d, err |-> Error(st.kind, "in_failed_transaction")]
       [] OTHER ->
            IF fault THEN failed("fault")
            ELSE IF natural # "none" THEN failed(natural)
            ELSE [db |-> Apply(d, c, st), err |-> NoError]

(***************************************************************************)
(* The uploaded files and the destination schemas of the model.            *)
(***************************************************************************)
H_Sprint == <<"S","p","r","i","n","t">>
H_sprint == <<"s","p","r","i","n","t">>
H_Estado == <<"E","s","t","a","d","o">>
H_Extra  == <<"E","x","t","r","a">>
C_sprint  == <<"s","p","r","i","n","t">>
C_sprint1 == <<"s","p","r","i","n","t","1">>
C_sprint2 == <<"s","p","r","i","n","t","2">>
C_estado  == <<"e","s","t","a","d","o">>
C_id      == <<"i","d">>
C_uploaded_at == <<"u","p","l","o","a","d","e","d","_","a","t">>

\* CSV_TO_COL of the fixed-mapping handler: (CSV header, column) in order
CSV_TO_COL == <<
  <<<<"T","i","p","o"," ","d","e"," ","I","n","c","i","d","e","n","c","i","a">>,
    <<"t","i","p","o","_","d","e","_","i","n","c","i","d","e","n","t","e">>>>,
  <<<<"C","l","a","v","e"," ","p","r","i","n","c","i","p","a","l">>,
    <<"c","l","a","v","e","_","p","r","i","n","c","i","p","a","l">>>>,
  <<<<"I","D"," ","d","e"," ","l","a"," ","i","n","c","i","d","e","n","c","i","a">>,
    <<"i","d","_","d","e","_","l","a","_","i","n","c","i","e","n","c","i","a">>>>,
  <<<<"R","e","s","u","m","e","n">>,
    <<"r","e","s","u","m","e","n">>>>,
  <<<<"P","r","i","n","c","i","p","a","l">>,
    <<"p","r","i","n","c","i","p","a","l">>>>,
  <<<<"C","l","a","v","e"," ","d","e"," ","i","n","c","i","d","e","n","c","i","a">>,
    <<"c","l","a","v","e","_","d","e","_","i","n","c","i","e","n","c","i","a">>>>,
  <<<<"P","a","r","e","n","t"," ","s","u","m","m","a","r","y">>,
    <<"p","a","r","e","n","t","_","s","u","m","m","a","r","y">>>>,
  <<<<"E","t","i","q","u","e","t","a","s">>,
    <<"e","t","i","q","u","e","t","a","s">>>>,
  <<<<"S","p","r","i","n","t">>,
    <<"s","p","r","i","n","t">>>>,
  <<<<"E","s","t","a","d","o">>,
    <<"e","s","t","a","d","o">>>>>>
INSERT_COLS == [k \in 1..Len(CSV_TO_COL) |-> CSV_TO_COL[k][2]] \o <<>>

\* the columns of the CREATE TABLE IF NOT EXISTS of the fixed-mapping handler
RawJiraColumns == <<C_id>> \o INSERT_COLS \o <<C_uploaded_at>>

\* a file: the header line's texts in file order, and the number of records
\* first: the number of cells of the first record, which is shorter than
\* the header line in a ShortFile
File(headers, nrows) == [headers |-> headers, nrows |-> nrows, first |-> Len(headers)]
ShortFile(headers, nrows, first) == [headers |-> headers, nrows |-> nrows, first |-> first]

\* the snapshot in the table before the first request: an earlier file
OldFile == File(<<H_Estado>>, 1)

(***************************************************************************)
(* Parsing and the column plan of each handler.                            *)
(***************************************************************************)
Max(S) == CHOOSE m \in S : \A k \in S : k <= m
MinOf(S) == CHOOSE m \in S : \A k \in S : m <= k

\* k.trim().toLowerCase() of pick
PickKey(k) == ToLower(StripBoth(k, Whitespace))

\* the header texts of the files that arrive, as they are and trimmed, and
\* what the handlers' name functions return for each of them
HeaderTexts == LET texts == {H_Sprint, H_sprint, H_Estado, H_Extra}
               IN texts \cup {StripBoth(t, Whitespace) : t \in texts}
NameOf == [t \in HeaderTexts |->
             [trim      |-> StripBoth(t, Whitespace),
              sanitize  |-> sanitize(t),
              sqlId     |-> sqlId(t),
              mapColumn |-> mapColumn(t),
              pick      |-> PickKey(t)]] @@ <<>>

RECURSIVE Distinct(_)
\* the elements of s in the order of their first occurrence
Distinct(s) ==
  IF s = <<>> THEN <<>>
  ELSE <<Head(s)>> \o Distinct(SelectSeq(Tail(s), LAMBDA e : e # Head(s)))

\* csv-parse with columns: true.  Every record is an object keyed by the
\* header texts: its keys are the distinct texts in order of first
\* appearance, and a text that occurs twice keeps the cell of its last
\* occurrence.  pos[k] is the file position whose cells key k holds.
parseCsv(headers, nrows) ==
  LET keys == Distinct(headers)
  IN [keys |-> keys,
      pos  |-> [k \in 1..Len(keys) |->
                  Max({j \in 1..Len(headers) : headers[j] = keys[k]})],
      n    |-> nrows]

\* the parser throws on a record that is shorter than the header line,
\* except with relax_column_count: true (the handler with rollback)
Rejected(hd, f) == hd # "reconcile" /\ f.first < Len(f.headers)
\* Object.keys(rows[0]) under relax_column_count: the first record has a
\* key for each of its cells only
FirstRecord(f) == parseCsv(SubSeq(f.headers, 1, f.first), f.nrows)

\* csv-parse with columns: true and trim: true: the header texts are trimmed
parseCsvTrim(headers, nrows) ==
  parseCsv([j \in 1..Len(headers) |-> NameOf[headers[j]].trim], nrows)

\* A plan is the column list of the INSERT statements and, per column, the
\* file position whose cells are bound to it (0: null is bound).
Plan(cols, src) == [cols |-> cols \o <<>>, src |-> src \o <<>>]

\* header, insertCols and values of the schema-reconciling handlers: sane
\* is filled in key order, so a later key overwrites an earlier one that
\* sanitizes to the same name
PlanReconcile(csv, tableColumns) ==
  LET header == [k \in 1..Len(csv.keys) |-> NameOf[csv.keys[k]].sanitize]
      insertCols == SelectSeq(tableColumns, LAMBDA c : c \in Range(header))
      sane(c) == csv.pos[Max({k \in 1..Len(header) : header[k] = c})]
  IN Plan(insertCols, [j \in 1..Len(insertCols) |-> sane(insertCols[j])])

\* colsSql and values of the dynamic-header handler
PlanDynamic(csv) ==
  Plan([k \in 1..Len(csv.keys) |-> NameOf[csv.keys[k]].sqlId], csv.pos)

\* norm and rowValues of upsertTable
PlanUpsert(csv) ==
  Plan([k \in 1..Len(csv.keys) |-> NameOf[csv.keys[k]].mapColumn], csv.pos)

\* INSERT_COLS and pick of the fixed-mapping handler: the first key that
\* matches the CSV header name, null when none does
Needles == [j \in 1..Len(CSV_TO_COL) |-> PickKey(CSV_TO_COL[j][1])] \o <<>>
PlanFixed(csv) ==
  LET found == [k \in 1..Len(csv.keys) |-> NameOf[csv.keys[k]].pick] \o <<>>
      hits(j) == {k \in 1..Len(csv.keys) : csv.keys[k] # <<>> /\ found[k] = Needles[j]}
  IN Plan(INSERT_COLS,
          [j \in 1..Len(CSV_TO_COL) |->
             IF hits(j) = {} THEN 0 ELSE csv.pos[MinOf(hits(j))]])

\* rows.slice(i, i + batchSize) of the file f
Chunk(f, i, size) == Slice(f, i, Min(i + size, f.nrows))
\* the whole batch size taken for chunk.length
ChunkLen_Full(n, i, size) == size
\* chunk.length
ChunkLen(n, i, size) == Min(i + size, n) - i

(***************************************************************************)
(* The process.                                                            *)
(*   env     what is deployed and offered: the handler, the files that     *)
(*           arrive, the request slots in use                              *)
(*   db      the store                                                     *)
(*   busy    the sessions checked out or open                              *)
(*   rq      per request: the handler's position and locals                *)
(*   log     per request: the statements it issued, with their outcome     *)
(*   resp    per request: the responses sent                               *)
(*   faults  statements failed by the store for an outside reason          *)
(* A request slot serves one request at a time and is taken again by a     *)
(* later request once its response is out.                                 *)
(*   loop    the batch loop on its own, for files and column lists too     *)
(*           large for the process model (specification SpecBatch)         *)
(*   pools   the connection pools the process has constructed and ended    *)
(*   kpi     the KPI rebuild (specification SpecKpi)                       *)
(*   call    one call of a function of the handlers, with its argument and  *)
(*           its result (specification SpecCall)                           *)
(***************************************************************************)
VARIABLES env, db, busy, rq, log, resp, faults, loop, pools, kpi, call
vars == <<env, db, busy, rq, log, resp, faults, loop, pools, kpi, call>>

NoPlan == Plan(<<>>, <<>>)

RECURSIVE TableRows(_)
\* the number of rows of the table t
TableRows(t) == IF t = <<>> THEN 0 ELSE (Head(t).hi - Head(t).lo) + TableRows(Tail(t))
\* the header positions of the file f whose cells the plan binds to no column
IgnoredHeaders(f, plan) == {j \in DOMAIN f.headers : j \notin Range(plan.src)}

\* what the load before this one left, when it reported success: its file,
\* the destination schema, the rows of the table and the headers it ignored
NoLast == [ok |-> FALSE, file |-> File(<<>>, 0), columns |-> <<>>, count |-> 0,
           ignored |-> {}]
Last(rec, response, d) ==
  IF rec.pc = "done" /\ response # <<>> /\ response[1].body.ok
    THEN [ok |-> TRUE, file |-> rec.file, columns |-> d.columns,
          count |-> TableRows(d.table), ignored |-> IgnoredHeaders(rec.file, rec.plan)]
    ELSE NoLast

Idle == [pc |-> "idle", file |-> File(<<>>, 0), conn |-> 0, plan |-> NoPlan,
         tableColumns |-> <<>>, i |-> 0, total |-> 0, err |-> NoError,
         released |-> 0, last |-> NoLast]

h == env.handler

Response(status, body) == [status |-> status, body |-> body]
Failure(status, err) == Response(status, [ok |-> FALSE, error |-> err])

\* what a handler does between two awaits: its locals afterwards, the
\* responses it sends, whether it gives its session back, the pools it
\* ends, the response writes that threw
Go(rec) == [rq |-> rec, sent |-> <<>>, free |-> FALSE, ended |-> 0, fails |-> 0]
\* client.release() (or client.end()), then the response
End(rec, response) ==
  [rq |-> [rec EXCEPT !.pc = "done", !.released = @ + 1],
   sent |-> <<response>>, free |-> TRUE, ended |-> 0, fails |-> 0]

\* res.json(..) / res.end(..) throws while the success response is written
WriteError == Error("response", "fault")
\* client.release() on a client that is back in its pool throws
ReleaseError == Error("release", "already_released")

\* the session is back (client.release() or client.end()) and the success
\* response is written; when the write throws, the handler's catch block
\* answers 500 with the error
Reply(rec, response, wfail) ==
  IF wfail
    THEN [End([rec EXCEPT !.err = WriteError], Failure(500, WriteError))
            EXCEPT !.fails = 1]
    ELSE End(rec, response)

\* the pools a request of the handler hd constructs (new Pool)
NewPools(hd) == IF hd \in {"fixed", "dynamic"} THEN 1 ELSE 0
\* the requests that have not constructed their pool yet
Connecting == {q \in Reqs : rq[q].pc = "connect"}

\* a request arrives with a file; an empty CSV is answered at once.  No
\* request arrives once the pools of the requests in flight reach MaxPools.
Receive(r, f, csv, empty, pc) ==
  /\ r \in env.slots
  /\ rq[r].pc \in {"idle", "done"}
  /\ f \in env.files
  /\ pools.made + NewPools(h) * (Cardinality(Connecting) + 1) <= MaxPools
  /\ log' = [log EXCEPT ![r] = <<>>]
  /\ LET \* two loads are in a row when no other load runs between them:
         \* the history is kept where requests are served one at a time
         last == IF Cardinality(env.slots) = 1 THEN Last(rq[r], resp[r], db)
                 ELSE NoLast
     IN IF Rejected(h, f)
          THEN /\ rq' = [rq EXCEPT ![r] = [Idle EXCEPT !.pc = "done", !.file = f,
                                                       !.last = last]]
               /\ resp' = [resp EXCEPT ![r] =
                             <<Failure(500, Error("parse", "record_length"))>>]
        ELSE IF csv.n = 0
          THEN /\ rq' = [rq EXCEPT ![r] = [Idle EXCEPT !.pc = "done", !.file = f,
                                                       !.last = last]]
               /\ resp' = [resp EXCEPT ![r] = <<empty>>]
          ELSE /\ rq' = [rq EXCEPT ![r] = [Idle EXCEPT !.pc = pc, !.file = f,
                                                       !.last = last]]
               /\ resp' = [resp EXCEPT ![r] = <<>>]
  /\ UNCHANGED <<env, db, busy, faults, loop, pools, kpi, call>>

\* pool.connect() / new Client + connect(): a session that is not in use;
\* made: the pools the handler constructs for it (new Pool)
Checkout(r, pc, made) ==
  \E c \in Conns :
    /\ c \notin busy
    /\ pools.made + made <= MaxPools
    /\ busy' = busy \cup {c}
    /\ rq' = [rq EXCEPT ![r].conn = c, ![r].pc = pc]
    /\ pools' = [pools EXCEPT !.made = @ + made]
    /\ UNCHANGED <<env, db, log, resp, faults, loop, kpi, call>>

\* the error client.query(st) of request r throws, NoError when it resolves
Outcome(r, st, fault) == Query(db, rq[r].conn, st, fault).err

\* await client.query(st) of request r, and what the handler does when the
\* query has resolved or thrown: out
Issue(r, st, fault, out) ==
  LET c == rq[r].conn
      res == Query(db, c, st, fault)
  IN /\ ~ Blocked(db, c, st.kind)
     /\ faults + (IF fault THEN 1 ELSE 0) + out.fails <= MaxFaults
     /\ faults' = faults + (IF fault THEN 1 ELSE 0) + out.fails
     /\ db' = res.db
     /\ log' = [log EXCEPT ![r] = Append(@, [kind |-> st.kind, ok |-> res.err = NoError])]
     /\ rq' = [rq EXCEPT ![r] = out.rq]
     /\ resp' = [resp EXCEPT ![r] = @ \o out.sent]
     /\ busy' = IF out.free THEN busy \ {c} ELSE busy
     /\ pools' = [pools EXCEPT !.ended = @ + out.ended]
     /\ UNCHANGED <<env, loop, kpi, call>>

\* the schema check left out
SchemaMissing_Never(tableColumns) == FALSE
\* if (tableColumns.length === 0) throw ...
SchemaMissing(tableColumns) == Len(tableColumns) = 0

\* the INSERT of the batch loop at offset i, and the loop's progress
InsertStmt(r, size) == Stmt("INSERT", rq[r].plan.cols, Chunk(rq[r].file, rq[r].i, size))
\* total += batchSize in place of total += chunk.length
Inserted_FullBatch(r, size, after) ==
  [rq[r] EXCEPT !.total = @ + size,
                !.i = @ + size,
                !.pc = IF rq[r].i + size < rq[r].file.nrows THEN "insert" ELSE after]
Inserted(r, size, after) ==
  [rq[r] EXCEPT !.total = @ + ChunkLen(rq[r].file.nrows, rq[r].i, size),
                !.i = @ + size,
                !.pc = IF rq[r].i + size < rq[r].file.nrows THEN "insert" ELSE after]

(***************************************************************************)
(* The schema-reconciling handler with rollback: BEGIN, then TRUNCATE,     *)
(* the INSERTs and COMMIT in a try block whose catch issues ROLLBACK and   *)
(* rethrows; the session comes from the shared pool through withClient.    *)
(***************************************************************************)
Rec_Receive(r) ==
  \E f \in env.files :
    /\ h = "reconcile"
    /\ Receive(r, f, parseCsv(f.headers, f.nrows),
               Failure(400, Error("handler", "empty_csv")), "connect")

Rec_Connect(r) ==
  /\ h = "reconcile" /\ rq[r].pc = "connect"
  /\ Checkout(r, "discover", 0)

\* the error leaves the handler and no response is written
Rec_Throw_Silent(rec, err) ==
  [End([rec EXCEPT !.err = err], Failure(500, err)) EXCEPT !.sent = <<>>]
\* the error leaves withClient (finally: release) and is answered with 500
Rec_Throw(rec, err) == End([rec EXCEPT !.err = err], Failure(500, err))

\* the catalog query, the schema check, insertCols and values
Rec_Discover(r) ==
  \E fault \in BOOLEAN :
    /\ h = "reconcile" /\ rq[r].pc = "discover"
    /\ LET csv == FirstRecord(rq[r].file)
           tableColumns == db.columns
           plan == PlanReconcile(csv, tableColumns)
           then(err) ==
             IF err # NoError THEN Rec_Throw(rq[r], err)
             ELSE IF SchemaMissing(tableColumns)
               THEN Rec_Throw(rq[r], Error("handler", "schema"))
             ELSE IF Len(plan.cols) = 0
               THEN Rec_Throw([rq[r] EXCEPT !.tableColumns = tableColumns],
                              Error("handler", "no_matching_column"))
             ELSE Go([rq[r] EXCEPT !.pc = "begin", !.tableColumns = tableColumns,
                                   !.plan = plan])
       IN Issue(r, Plain("SELECT"), fault, then(Outcome(r, Plain("SELECT"), fault)))

\* await client.query('BEGIN'), before the try block
Rec_Begin(r) ==
  \E fault \in BOOLEAN :
    /\ h = "reconcile" /\ rq[r].pc = "begin"
    /\ LET then(err) ==
             IF err # NoError THEN Rec_Throw(rq[r], err)
             ELSE Go([rq[r] EXCEPT !.pc = "truncate"])
       IN Issue(r, Plain("BEGIN"), fault, then(Outcome(r, Plain("BEGIN"), fault)))

\* the TRUNCATE left out
Rec_Truncate_Skipped(r) ==
  /\ h = "reconcile" /\ rq[r].pc = "truncate"
  /\ rq' = [rq EXCEPT ![r].pc = "insert"]
  /\ UNCHANGED <<env, db, busy, log, resp, faults, loop, pools, kpi, call>>
Rec_Truncate(r) ==
  \E fault \in BOOLEAN :
    /\ h = "reconcile" /\ rq[r].pc = "truncate"
    /\ LET then(err) ==
             IF err # NoError THEN Go([rq[r] EXCEPT !.pc = "rollback", !.err = err])
             ELSE Go([rq[r] EXCEPT !.pc = "insert"])
       IN Issue(r, Plain("TRUNCATE"), fault, then(Outcome(r, Plain("TRUNCATE"), fault)))

\* one turn of the batch loop
Rec_Insert(r) ==
  \E fault \in BOOLEAN :
    /\ h = "reconcile" /\ rq[r].pc = "insert"
    /\ LET size == batchSize("reconcile")
           then(err) ==
             IF err # NoError THEN Go([rq[r] EXCEPT !.pc = "rollback", !.err = err])
             ELSE Go(Inserted(r, size, "commit"))
       IN Issue(r, InsertStmt(r, size), fault, then(Outcome(r, InsertStmt(r, size), fault)))

\* COMMIT; return total; release; res.status(200).json({ok: true, rows})
Rec_Commit(r) ==
  \E fault, wfail \in BOOLEAN :
    /\ h = "reconcile" /\ rq[r].pc = "commit"
    /\ LET then(err) ==
             IF err # NoError THEN Go([rq[r] EXCEPT !.pc = "rollback", !.err = err])
             ELSE Reply(rq[r], Response(200, [ok |-> TRUE, rows |-> rq[r].total]), wfail)
       IN Issue(r, Plain("COMMIT"), fault, then(Outcome(r, Plain("COMMIT"), fault)))

\* catch (e) { await client.query('ROLLBACK'); throw e; }: when the ROLLBACK
\* throws, its error leaves the catch block in place of e
Rec_Rollback(r) ==
  \E fault \in BOOLEAN :
    /\ h = "reconcile" /\ rq[r].pc = "rollback"
    /\ LET then(err) == Rec_Throw(rq[r], IF err # NoError THEN err ELSE rq[r].err)
       IN Issue(r, Plain("ROLLBACK"), fault, then(Outcome(r, Plain("ROLLBACK"), fault)))

(***************************************************************************)
(* The schema-reconciling handler with the KPI hook: the same load with no *)
(* try block around the transaction, and runKpiSql before COMMIT.          *)
(***************************************************************************)
Kpi_Receive(r) ==
  \E f \in env.files :
    /\ h = "reconcileKpi"
    /\ Receive(r, f, parseCsv(f.headers, f.nrows),
               Failure(400, Error("handler", "empty_csv")), "connect")

Kpi_Connect(r) ==
  /\ h = "reconcileKpi" /\ rq[r].pc = "connect"
  /\ Checkout(r, "discover", 0)

\* any error leaves withClient (finally: release) and is answered with 500
Kpi_Throw(rec, err) == End([rec EXCEPT !.err = err], Failure(500, err))

Kpi_Discover(r) ==
  \E fault \in BOOLEAN :
    /\ h = "reconcileKpi" /\ rq[r].pc = "discover"
    /\ LET csv == parseCsv(rq[r].file.headers, rq[r].file.nrows)
           tableColumns == db.columns
           plan == PlanReconcile(csv, tableColumns)
           then(err) ==
             IF err # NoError THEN Kpi_Throw(rq[r], err)
             ELSE IF SchemaMissing(tableColumns)
               THEN Kpi_Throw(rq[r], Error("handler", "schema"))
             ELSE IF Len(plan.cols) = 0
               THEN Kpi_Throw([rq[r] EXCEPT !.tableColumns = tableColumns],
                              Error("handler", "no_matching_column"))
             ELSE Go([rq[r] EXCEPT !.pc = "begin", !.tableColumns = tableColumns,
                                   !.plan = plan])
       IN Issue(r, Plain("SELECT"), fault, then(Outcome(r, Plain("SELECT"), fault)))

Kpi_Begin(r) ==
  \E fault \in BOOLEAN :
    /\ h = "reconcileKpi" /\ rq[r].pc = "begin"
    /\ LET then(err) ==
             IF err # NoError THEN Kpi_Throw(rq[r], err)
             ELSE Go([rq[r] EXCEPT !.pc = "truncate"])
       IN Issue(r, Plain("BEGIN"), fault, then(Outcome(r, Plain("BEGIN"), fault)))

Kpi_Truncate(r) ==
  \E fault \in BOOLEAN :
    /\ h = "reconcileKpi" /\ rq[r].pc = "truncate"
    /\ LET then(err) ==
             IF err # NoError THEN Kpi_Throw(rq[r], err)
             ELSE Go([rq[r] EXCEPT !.pc = "insert"])
       IN Issue(r, Plain("TRUNCATE"), fault, then(Outcome(r, Plain("TRUNCATE"), fault)))

Kpi_Insert(r) ==
  \E fault \in BOOLEAN :
    /\ h = "reconcileKpi" /\ rq[r].pc = "insert"
    /\ LET size == batchSize("reconcileKpi")
           then(err) ==
             IF err # NoError THEN Kpi_Throw(rq[r], err)
             ELSE Go(Inserted(r, size, "kpi"))
       IN Issue(r, InsertStmt(r, size), fault, then(Outcome(r, InsertStmt(r, size), fault)))

\* await runKpiSql(client): the function body is empty, no statement is issued
Kpi_RunKpiSql(r) ==
  /\ h = "reconcileKpi" /\ rq[r].pc = "kpi"
  /\ rq' = [rq EXCEPT ![r].pc = "commit"]
  /\ UNCHANGED <<env, db, busy, log, resp, faults, loop, pools, kpi, call>>

Kpi_Commit(r) ==
  \E fault, wfail \in BOOLEAN :
    /\ h = "reconcileKpi" /\ rq[r].pc = "commit"
    /\ LET then(err) ==
             IF err # NoError THEN Kpi_Throw(rq[r], err)
             ELSE Reply(rq[r], Response(200, [ok |-> TRUE, rows |-> rq[r].total]), wfail)
       IN Issue(r, Plain("COMMIT"), fault, then(Outcome(r, Plain("COMMIT"), fault)))

(***************************************************************************)
(* The table-creating handler: its own Client, CREATE TABLE IF NOT EXISTS, *)
(* TRUNCATE and the INSERTs of upsertTable, each in autocommit.            *)
(***************************************************************************)
Ups_Receive(r) ==
  \E f \in env.files :
    /\ h = "upsert"
    /\ Receive(r, f, parseCsv(f.headers, f.nrows),
               Failure(400, Error("handler", "empty_csv")), "connect")

\* new Client(..); await client.connect()
Ups_Connect(r) ==
  /\ h = "upsert" /\ rq[r].pc = "connect"
  /\ Checkout(r, "create", 0)

\* upsertTable: norm, and CREATE TABLE IF NOT EXISTS with id and norm
Ups_Create(r) ==
  \E fault \in BOOLEAN :
    /\ h = "upsert" /\ rq[r].pc = "create"
    /\ LET plan == PlanUpsert(parseCsv(rq[r].file.headers, rq[r].file.nrows))
           then(err) ==
             IF err # NoError THEN Go([rq[r] EXCEPT !.pc = "end", !.err = err])
             ELSE Go([rq[r] EXCEPT !.pc = "truncate", !.plan = plan])
       IN Issue(r, Stmt("CREATE", <<C_id>> \o plan.cols, <<>>), fault, then(Outcome(r, Stmt("CREATE", <<C_id>> \o plan.cols, <<>>), fault)))

Ups_Truncate(r) ==
  \E fault \in BOOLEAN :
    /\ h = "upsert" /\ rq[r].pc = "truncate"
    /\ LET then(err) ==
             IF err # NoError THEN Go([rq[r] EXCEPT !.pc = "end", !.err = err])
             ELSE Go([rq[r] EXCEPT !.pc = "insert"])
       IN Issue(r, Plain("TRUNCATE"), fault, then(Outcome(r, Plain("TRUNCATE"), fault)))

Ups_Insert(r) ==
  \E fault \in BOOLEAN :
    /\ h = "upsert" /\ rq[r].pc = "insert"
    /\ LET size == batchSize("upsert")
           then(err) ==
             IF err # NoError THEN Go([rq[r] EXCEPT !.pc = "end", !.err = err])
             ELSE Go(Inserted(r, size, "end"))
       IN Issue(r, InsertStmt(r, size), fault, then(Outcome(r, InsertStmt(r, size), fault)))

\* finally { await client.end() }, then the response
Ups_End(r) ==
  \E wfail \in BOOLEAN :
    /\ h = "upsert" /\ rq[r].pc = "end"
    /\ LET out == IF rq[r].err = NoError
                    THEN Reply(rq[r], Response(200, [ok |-> TRUE, inserted |-> rq[r].total]),
                               wfail)
                    ELSE End(rq[r], Failure(500, rq[r].err))
       IN /\ faults + out.fails <= MaxFaults
          /\ faults' = faults + out.fails
          /\ db' = EndTxn(db, rq[r].conn)
          /\ busy' = busy \ {rq[r].conn}
          /\ rq' = [rq EXCEPT ![r] = out.rq]
          /\ resp' = [resp EXCEPT ![r] = @ \o out.sent]
    /\ UNCHANGED <<env, log, loop, pools, kpi, call>>

(***************************************************************************)
(* The fixed-mapping handler: its own Pool, CREATE TABLE IF NOT EXISTS,    *)
(* TRUNCATE and the INSERTs of the ten mapped columns, each in autocommit. *)
(***************************************************************************)
Fix_Receive(r) ==
  \E f \in env.files :
    /\ h = "fixed"
    /\ Receive(r, f, parseCsvTrim(f.headers, f.nrows),
               Failure(400, Error("handler", "empty_csv")), "connect")

\* new Pool(getPgConfig()); await pool.connect()
Fix_Connect(r) ==
  /\ h = "fixed" /\ rq[r].pc = "connect"
  /\ Checkout(r, "create", NewPools("fixed"))

\* finally { client.release(); await pool.end(); }, then the catch answers 500
Fix_Throw(r, err) ==
  [End([rq[r] EXCEPT !.err = err], Failure(500, err)) EXCEPT !.ended = 1]

Fix_Create(r) ==
  \E fault \in BOOLEAN :
    /\ h = "fixed" /\ rq[r].pc = "create"
    /\ LET plan == PlanFixed(parseCsvTrim(rq[r].file.headers, rq[r].file.nrows))
           then(err) ==
             IF err # NoError THEN Fix_Throw(r, err)
             ELSE Go([rq[r] EXCEPT !.pc = "truncate", !.plan = plan])
       IN Issue(r, Stmt("CREATE", RawJiraColumns, <<>>), fault, then(Outcome(r, Stmt("CREATE", RawJiraColumns, <<>>), fault)))

Fix_Truncate(r) ==
  \E fault \in BOOLEAN :
    /\ h = "fixed" /\ rq[r].pc = "truncate"
    /\ LET then(err) ==
             IF err # NoError THEN Fix_Throw(r, err)
             ELSE Go([rq[r] EXCEPT !.pc = "insert"])
       IN Issue(r, Plain("TRUNCATE"), fault, then(Outcome(r, Plain("TRUNCATE"), fault)))

\* one turn of the loop; after the last one res.end({ok: true, rows}), then
\* the finally block
Fix_Insert(r) ==
  \E fault, wfail \in BOOLEAN :
    /\ h = "fixed" /\ rq[r].pc = "insert"
    /\ LET size == batchSize("fixed")
           after == Inserted(r, size, "done")
           then(err) ==
             IF err # NoError THEN Fix_Throw(r, err)
             ELSE IF after.pc = "insert" THEN Go(after)
             ELSE [Reply(after, Response(200, [ok |-> TRUE, rows |-> after.total]), wfail)
                     EXCEPT !.ended = 1]
       IN Issue(r, InsertStmt(r, size), fault, then(Outcome(r, InsertStmt(r, size), fault)))

(***************************************************************************)
(* The dynamic-header handler: its own Pool, BEGIN .. COMMIT with every    *)
(* CSV header as a column, and a catch that issues ROLLBACK.               *)
(***************************************************************************)
Dyn_Receive(r) ==
  \E f \in env.files :
    /\ h = "dynamic"
    /\ Receive(r, f, parseCsv(f.headers, f.nrows),
               Failure(400, Error("handler", "empty_csv")), "connect")

\* headers, colsSql; new Pool(..); await pool.connect()
Dyn_Connect(r) ==
  /\ h = "dynamic" /\ rq[r].pc = "connect"
  /\ Checkout(r, "begin", NewPools("dynamic"))

Dyn_Begin(r) ==
  \E fault \in BOOLEAN :
    /\ h = "dynamic" /\ rq[r].pc = "begin"
    /\ LET plan == PlanDynamic(parseCsv(rq[r].file.headers, rq[r].file.nrows))
           then(err) ==
             IF err # NoError THEN Go([rq[r] EXCEPT !.pc = "rollback", !.err = err])
             ELSE Go([rq[r] EXCEPT !.pc = "truncate", !.plan = plan])
       IN Issue(r, Plain("BEGIN"), fault, then(Outcome(r, Plain("BEGIN"), fault)))

Dyn_Truncate(r) ==
  \E fault \in BOOLEAN :
    /\ h = "dynamic" /\ rq[r].pc = "truncate"
    /\ LET then(err) ==
             IF err # NoError THEN Go([rq[r] EXCEPT !.pc = "rollback", !.err = err])
             ELSE Go([rq[r] EXCEPT !.pc = "insert"])
       IN Issue(r, Plain("TRUNCATE"), fault, then(Outcome(r, Plain("TRUNCATE"), fault)))

Dyn_Insert(r) ==
  \E fault \in BOOLEAN :
    /\ h = "dynamic" /\ rq[r].pc = "insert"
    /\ LET size == batchSize("dynamic")
           then(err) ==
             IF err # NoError THEN Go([rq[r] EXCEPT !.pc = "rollback", !.err = err])
             ELSE Go(Inserted(r, size, "commit"))
       IN Issue(r, InsertStmt(r, size), fault, then(Outcome(r, InsertStmt(r, size), fault)))

\* COMMIT; client.release(); res.json({ok: true, inserted: records.length}):
\* all three are in the try block, so when res.json throws the catch block
\* runs with the client already back in the request's own pool
Dyn_Commit(r) ==
  \E fault, wfail \in BOOLEAN :
    /\ h = "dynamic" /\ rq[r].pc = "commit"
    /\ LET then(err) ==
             IF err # NoError THEN Go([rq[r] EXCEPT !.pc = "rollback", !.err = err])
             ELSE IF wfail
               THEN [Go([rq[r] EXCEPT !.pc = "rollback", !.err = WriteError,
                                      !.released = @ + 1])
                       EXCEPT !.fails = 1]
             ELSE End(rq[r], Response(200, [ok |-> TRUE, inserted |-> rq[r].file.nrows]))
       IN Issue(r, Plain("COMMIT"), fault, then(Outcome(r, Plain("COMMIT"), fault)))

\* catch (e) { try { ROLLBACK } catch {}; client.release(); 500 with e };
\* a second client.release() throws, and the outer catch answers 500 with
\* that error
Dyn_Rollback(r) ==
  \E fault \in BOOLEAN :
    /\ h = "dynamic" /\ rq[r].pc = "rollback"
    /\ LET then(err) ==
             End(rq[r], Failure(500, IF rq[r].released > 0 THEN ReleaseError
                                     ELSE rq[r].err))
       IN Issue(r, Plain("ROLLBACK"), fault, then(Outcome(r, Plain("ROLLBACK"), fault)))

(***************************************************************************)
(* Specifications.                                                         *)
(***************************************************************************)
\* 0 records, one batch, MaxBatches batches of the handler hd
RowCounts(hd) == {0, 1, (MaxBatches - 1) * batchSize(hd) + 1}
StandardHeaders == <<H_Sprint, H_Estado>>
HeaderLines == {StandardHeaders, <<H_Sprint, H_Extra>>, <<H_Sprint, H_sprint>>,
                <<H_Sprint, H_Sprint, H_Sprint>>, <<H_Extra>>}
StandardSchema == <<C_sprint, C_estado>>
Schemas == {<<>>, StandardSchema, <<C_sprint, C_sprint1, C_sprint2>>}

\* the files of the sequential specification: every header line with one
\* record, the standard header line with every record count
SeqFiles(hd) == {File(hs, 1) : hs \in HeaderLines}
                  \cup {File(StandardHeaders, n) : n \in RowCounts(hd)}
                  \cup {ShortFile(StandardHeaders, 2, 1)}
\* the files of the concurrent specification
RaceFiles(hd) == {File(StandardHeaders, n) : n \in RowCounts(hd) \ {0}}
\* the table the concurrent loads of handler hd find
RaceSchema(hd) == IF hd = "fixed" THEN RawJiraColumns ELSE <<C_sprint, C_estado>>

InitStore(columns) ==
  db = [columns |-> columns, table |-> <<Slice(OldFile, 0, 1)>>,
        txn |-> [c \in Conns |-> "none"], pend |-> [c \in Conns |-> NoPend],
        lock |-> 0]

\* the batch loop is not run in the process specifications
NoLoop == [handler |-> "none", n |-> 0, c |-> 0, i |-> 0, total |-> 0, stmts |-> <<>>]

\* the KPI rebuild is not run in the load specifications
NoKpi == [op |-> "none"]
\* no function is called on its own outside the specification SpecCall
NoCall == [fn |-> "none"]
\* the pool of _db.js is constructed when the module is loaded
ModulePools(hd) == IF hd \in {"reconcile", "reconcileKpi"} THEN 1 ELSE 0

InitProcess ==
  /\ loop = NoLoop
  /\ call = NoCall
  /\ kpi = NoKpi
  /\ pools = [made |-> ModulePools(h), ended |-> 0]
  /\ busy = {}
  /\ rq = [r \in Reqs |-> Idle]
  /\ log = [r \in Reqs |-> <<>>]
  /\ resp = [r \in Reqs |-> <<>>]
  /\ faults = 0

\* requests served one after another, files of every shape
Init ==
  /\ \E hd \in Handlers : env = [handler |-> hd, files |-> SeqFiles(hd), slots |-> {1}]
  /\ \E cols \in Schemas : InitStore(cols)
  /\ InitProcess

\* the requests of Reqs in flight at once
InitRace ==
  /\ \E hd \in Handlers :
       /\ env = [handler |-> hd, files |-> RaceFiles(hd), slots |-> Reqs]
       /\ InitStore(RaceSchema(hd))
  /\ InitProcess

Next ==
  \E r \in Reqs :
    \/ Rec_Receive(r) \/ Rec_Connect(r) \/ Rec_Discover(r) \/ Rec_Begin(r)
    \/ Rec_Truncate(r) \/ Rec_Insert(r) \/ Rec_Commit(r) \/ Rec_Rollback(r)
    \/ Kpi_Receive(r) \/ Kpi_Connect(r) \/ Kpi_Discover(r) \/ Kpi_Begin(r)
    \/ Kpi_Truncate(r) \/ Kpi_Insert(r) \/ Kpi_RunKpiSql(r) \/ Kpi_Commit(r)
    \/ Ups_Receive(r) \/ Ups_Connect(r) \/ Ups_Create(r) \/ Ups_Truncate(r)
    \/ Ups_Insert(r) \/ Ups_End(r)
    \/ Fix_Receive(r) \/ Fix_Connect(r) \/ Fix_Create(r) \/ Fix_Truncate(r)
    \/ Fix_Insert(r)
    \/ Dyn_Receive(r) \/ Dyn_Connect(r) \/ Dyn_Begin(r) \/ Dyn_Truncate(r)
    \/ Dyn_Insert(r) \/ Dyn_Commit(r) \/ Dyn_Rollback(r)

Spec == Init /\ [][Next]_vars
SpecRace == InitRace /\ [][Next]_vars

\* the steps of request r after its arrival: each is the continuation of an
\* awaited call
Step(r) ==
  \/ Rec_Connect(r) \/ Rec_Discover(r) \/ Rec_Begin(r) \/ Rec_Truncate(r)
  \/ Rec_Insert(r) \/ Rec_Commit(r) \/ Rec_Rollback(r)
  \/ Kpi_Connect(r) \/ Kpi_Discover(r) \/ Kpi_Begin(r) \/ Kpi_Truncate(r)
  \/ Kpi_Insert(r) \/ Kpi_RunKpiSql(r) \/ Kpi_Commit(r)
  \/ Ups_Connect(r) \/ Ups_Create(r) \/ Ups_Truncate(r) \/ Ups_Insert(r)
  \/ Ups_End(r)
  \/ Fix_Connect(r) \/ Fix_Create(r) \/ Fix_Truncate(r) \/ Fix_Insert(r)
  \/ Dyn_Connect(r) \/ Dyn_Begin(r) \/ Dyn_Truncate(r) \/ Dyn_Insert(r)
  \/ Dyn_Commit(r) \/ Dyn_Rollback(r)

\* the concurrent loads under the event loop's scheduling: a request whose
\* awaited call has returned or thrown runs its continuation, and a
\* statement that waits for the table lock gets it when it is its turn
\* the loads whose every await returns: one request at a time, a file of
\* every record count and a file none of whose headers matches; the event
\* loop resumes a handler whose awaited call has returned
LiveFiles(hd) == {File(StandardHeaders, n) : n \in RowCounts(hd)}
                   \cup {File(<<H_Extra>>, 1)}
InitLive ==
  /\ \E hd \in Handlers : env = [handler |-> hd, files |-> LiveFiles(hd), slots |-> {1}]
  /\ \E cols \in {<<>>, StandardSchema} : InitStore(cols)
  /\ InitProcess
SpecLive == InitLive /\ [][Next]_vars /\ \A r \in Reqs : WF_vars(Step(r))

(***************************************************************************)
(* The batch loop on its own: for (i = 0; i < n; i += batchSize) with one  *)
(* INSERT of c columns per turn, which binds chunk.flat().length (or       *)
(* values.length) parameters.                                              *)
(***************************************************************************)
\* the parameters the INSERT of rows records and c columns binds
ParamCount(rows, c) == rows * c

\* insertCols (colsSql, INSERT_COLS, norm): const, computed before the loop;
\* a column is named by its place in the list
ColumnList(c) == [j \in 1..c |-> j]

\* one turn: the chunk rows.slice(i, i + batchSize), its INSERT over the
\* column list, total += chunk.length
Loop_Turn ==
  /\ loop.handler \in Handlers
  /\ loop.i < loop.n
  /\ LET size == batchSize(loop.handler)
         rows == ChunkLen(loop.n, loop.i, size)
     IN loop' = [loop EXCEPT !.i = @ + size,
                             !.total = @ + rows,
                             !.stmts = Append(@, [lo |-> loop.i,
                                                  rows |-> rows,
                                                  cols |-> ColumnList(loop.c),
                                                  params |-> ParamCount(rows, loop.c)])]
  /\ UNCHANGED <<env, db, busy, rq, log, resp, faults, pools, kpi, call>>

InitBatch ==
  /\ env = [handler |-> "none", files |-> {}, slots |-> {}]
  /\ InitStore(<<>>)
  /\ busy = {} /\ faults = 0 /\ call = NoCall
  /\ kpi = NoKpi /\ pools = [made |-> 0, ended |-> 0]
  /\ rq = [r \in Reqs |-> Idle]
  /\ log = [r \in Reqs |-> <<>>]
  /\ resp = [r \in Reqs |-> <<>>]
  /\ \E hd \in Handlers, c \in 1..MaxCols :
       \E n \in RowCounts(hd) \cup {batchSize(hd)} :
         loop = [handler |-> hd, n |-> n, c |-> c, i |-> 0, total |-> 0, stmts |-> <<>>]

NextBatch == Loop_Turn
SpecBatch == InitBatch /\ [][NextBatch]_vars
(***************************************************************************)
(* The KPI rebuild: the handler of sql/kpi/rebuild.js and rebuildAllKpis   *)
(* of api/_kpi.js run every *.sql file of the directory sql/kpis through   *)
(* the pool of getPool.                                                    *)
(*   kpi.token   ADMIN_TOKEN, <<>> when it is not set                      *)
(*   kpi.dburl   DATABASE_URL is set                                       *)
(*   kpi.dir     the names fs.readdir enumerates, in its order; Missing    *)
(*               when the directory does not exist                         *)
(*   kpi.files   the list the loop walks, kpi.k the position in it         *)
(*   kpi.events  start, end and fail of the artifacts' execution           *)
(*   kpi.result  what the caller gets                                      *)
(***************************************************************************)
\* UTF-16 code unit order of the characters of file names
CodeOrder == <<".">> \o <<"0", "1", "2", "3", "4", "5", "6", "7", "8", "9">>
               \o UpperSeq \o <<"_">> \o LowerSeq
CodeOf == [c \in Range(CodeOrder) |-> CHOOSE k \in DOMAIN CodeOrder : CodeOrder[k] = c]

RECURSIVE Less(_, _)
\* a < b as Array.prototype.sort compares strings without a comparator
Less(a, b) ==
  IF b = <<>> THEN FALSE
  ELSE IF a = <<>> THEN TRUE
  ELSE IF Head(a) = Head(b) THEN Less(Tail(a), Tail(b))
  ELSE CodeOf[Head(a)] < CodeOf[Head(b)]

RECURSIVE InsertName(_, _)
InsertName(x, s) ==
  IF s = <<>> THEN <<x>>
  ELSE IF Less(x, Head(s)) THEN <<x>> \o s
  ELSE <<Head(s)>> \o InsertName(x, Tail(s))

RECURSIVE SortNames(_)
\* the listing left as fs.readdir returned it
SortNames_Unsorted(s) == s
\* files.sort()
SortNames(s) == IF s = <<>> THEN <<>> ELSE InsertName(Head(s), SortNames(Tail(s)))

\* f.endsWith('.sql')
EndsWith(s, suffix) ==
  /\ Len(s) >= Len(suffix)
  /\ SubSeq(s, Len(s) - Len(suffix) + 1, Len(s)) = suffix
DotSql == <<".", "s", "q", "l">>
IsSql(f) == EndsWith(f, DotSql)

K_01 == <<"0", "1", "_", "p", "l", "a", "n", ".", "s", "q", "l">>
K_02 == <<"0", "2", "_", "c", "a", "r", "r", "y", ".", "s", "q", "l">>
K_10 == <<"1", "0", ".", "s", "q", "l">>
K_md == <<"R", "E", "A", "D", "M", "E", ".", "m", "d">>
KpiNames == {K_01, K_02, K_10, K_md}
Missing == <<<<>>>>
\* the directory listings: distinct names in any order
Listings ==
  {s \in UNION {[1..n -> KpiNames] : n \in 0..MaxListing} : NoDup(s)}

\* the Authorization header and the token taken from it
Bearer == <<"B", "e", "a", "r", "e", "r", " ">>
T_good == <<"t">>
T_bad == <<"x">>
AuthHeaders == {<<>>, Bearer \o T_good, Bearer \o T_bad, T_good}
StartsWith(s, prefix) == Len(s) >= Len(prefix) /\ SubSeq(s, 1, Len(prefix)) = prefix
\* the whole header taken for the token
Provided_Whole(auth) == auth
\* auth.startsWith('Bearer ') ? auth.slice(7) : ''
Provided(auth) == IF StartsWith(auth, Bearer) THEN SubSeq(auth, 8, Len(auth)) ELSE <<>>

Event(ev, name) == [ev |-> ev, name |-> name]

\* a rebuild starts: the locals of the call
Started(op, pc) ==
  [kpi EXCEPT !.op = op, !.pc = pc, !.files = <<>>, !.k = 0, !.events = <<>>,
              !.executed = <<>>, !.result = <<>>]
\* the call ends with a result
Ended(st, result) == [st EXCEPT !.pc = "done", !.result = <<result>>]

\* getPool(): the pool is constructed on the first call that finds none
GetPool == [pools EXCEPT !.made = IF @ = 0 THEN 1 ELSE @]
\* getPool throws when it has to construct the pool and DATABASE_URL is unset
GetPoolThrows == pools.made = 0 /\ ~ kpi.dburl

\* the artifact's failure goes unnoticed and the loop goes on
Failed_Continue(st, name, result) ==
  IF st.k < Len(st.files)
    THEN [st EXCEPT !.events = Append(@, Event("fail", name)), !.k = @ + 1, !.pc = "run"]
    ELSE Ended([st EXCEPT !.events = Append(@, Event("fail", name))], result)
\* an artifact fails: the error leaves the loop and the call ends with result
Failed(st, name, result) ==
  Ended([st EXCEPT !.events = Append(@, Event("fail", name))], result)

\* The handler of sql/kpi/rebuild.js.
\* the token check, getPool(), and the call of fs.readdir
Reb_Receive ==
  \E auth \in AuthHeaders :
    /\ kpi.op # "none" /\ kpi.pc \in {"idle", "done"}
    /\ LET st == [Started("handler", "list") EXCEPT !.auth = auth]
       IN IF kpi.token # <<>> /\ Provided(auth) # kpi.token
            THEN /\ kpi' = Ended(st, Failure(401, Error("handler", "unauthorized")))
                 /\ UNCHANGED pools
          ELSE IF GetPoolThrows
            THEN /\ kpi' = Ended(st, Failure(500, Error("getPool", "missing_env")))
                 /\ UNCHANGED pools
          ELSE /\ kpi' = st
               /\ pools' = GetPool
    /\ UNCHANGED <<env, db, busy, rq, log, resp, faults, loop, call>>

\* fs.readdir resolves or rejects; filter, sort, the empty case
Reb_List ==
  /\ kpi.op = "handler" /\ kpi.pc = "list"
  /\ LET files == SortNames(SelectSeq(kpi.dir, IsSql))
     IN kpi' = IF kpi.dir = Missing
                 THEN Ended(kpi, Failure(500, Error("readdir", "enoent")))
               ELSE IF files = <<>>
                 THEN Ended(kpi, Response(200, [ok |-> TRUE, executed |-> <<>>,
                                                 note |-> "no_sql_files"]))
               ELSE [kpi EXCEPT !.files = files, !.k = 1, !.pc = "run"]
  /\ UNCHANGED <<env, db, busy, rq, log, resp, faults, loop, pools, call>>

\* fs.readFile of the next artifact, then pool.query(sql) is issued
Reb_Start ==
  \E readable \in BOOLEAN :
    /\ kpi.op = "handler" /\ kpi.pc = "run"
    /\ LET f == kpi.files[kpi.k]
       IN kpi' = IF readable
                   THEN [kpi EXCEPT !.events = Append(@, Event("start", f)),
                                    !.pc = "query"]
                 ELSE Failed(kpi, f, Failure(500, Error("readFile", "fault")))
    /\ UNCHANGED <<env, db, busy, rq, log, resp, faults, loop, pools, call>>

\* pool.query(sql) resolves or rejects; executed.push(f); the 200 response
\* after the last artifact, the 500 response of the catch block
Reb_Finish ==
  \E ok \in BOOLEAN :
    /\ kpi.op = "handler" /\ kpi.pc = "query"
    /\ LET f == kpi.files[kpi.k]
           executed == Append(kpi.executed, f)
           next == [kpi EXCEPT !.events = Append(@, Event("end", f)),
                               !.executed = executed, !.k = @ + 1, !.pc = "run"]
       IN kpi' = IF ~ ok
                   THEN Failed(kpi, f, Failure(500, Error("query", "fault")))
                 ELSE IF kpi.k = Len(kpi.files)
                   THEN Ended(next, Response(200, [ok |-> TRUE, executed |-> executed]))
                 ELSE next
    /\ UNCHANGED <<env, db, busy, rq, log, resp, faults, loop, pools, call>>

\* rebuildAllKpis of api/_kpi.js.
\* the first position from k on that holds a *.sql name (the loop's
\* continue), Len(files) + 1 when there is none
NextSql(files, k) ==
  MinOf({j \in k..Len(files) : IsSql(files[j])} \cup {Len(files) + 1})

\* getPool() and the call of fs.readdir
All_Call ==
  /\ kpi.op # "none" /\ kpi.pc \in {"idle", "done"}
  /\ LET st == Started("rebuildAllKpis", "list")
     IN IF GetPoolThrows
          THEN /\ kpi' = Ended(st, [ok |-> FALSE, error |-> Error("getPool", "missing_env")])
               /\ UNCHANGED pools
        ELSE /\ kpi' = st
             /\ pools' = GetPool
  /\ UNCHANGED <<env, db, busy, rq, log, resp, faults, loop, call>>

\* fs.readdir(KPIS_DIR).catch(() => []); files.sort(); the loop reaches its
\* first *.sql file or returns executed
All_List ==
  /\ kpi.op = "rebuildAllKpis" /\ kpi.pc = "list"
  /\ LET files == SortNames(IF kpi.dir = Missing THEN <<>> ELSE kpi.dir)
         k == NextSql(files, 1)
     IN kpi' = IF k > Len(files)
                 THEN Ended([kpi EXCEPT !.files = files, !.k = k],
                            [ok |-> TRUE, executed |-> <<>>])
               ELSE [kpi EXCEPT !.files = files, !.k = k, !.pc = "run"]
  /\ UNCHANGED <<env, db, busy, rq, log, resp, faults, loop, pools, call>>

All_Start ==
  \E readable \in BOOLEAN :
    /\ kpi.op = "rebuildAllKpis" /\ kpi.pc = "run"
    /\ LET f == kpi.files[kpi.k]
       IN kpi' = IF readable
                   THEN [kpi EXCEPT !.events = Append(@, Event("start", f)),
                                    !.pc = "query"]
                 ELSE Failed(kpi, f, [ok |-> FALSE, error |-> Error("readFile", "fault")])
    /\ UNCHANGED <<env, db, busy, rq, log, resp, faults, loop, pools, call>>

\* pool.query(sql) resolves or rejects; executed.push(f); return executed
All_Finish ==
  \E ok \in BOOLEAN :
    /\ kpi.op = "rebuildAllKpis" /\ kpi.pc = "query"
    /\ LET f == kpi.files[kpi.k]
           executed == Append(kpi.executed, f)
           k == NextSql(kpi.files, kpi.k + 1)
           next == [kpi EXCEPT !.events = Append(@, Event("end", f)),
                               !.executed = executed, !.k = k, !.pc = "run"]
       IN kpi' = IF ~ ok
                   THEN Failed(kpi, f, [ok |-> FALSE, error |-> Error("query", "fault")])
                 ELSE IF k > Len(kpi.files)
                   THEN Ended(next, [ok |-> TRUE, executed |-> executed])
                 ELSE next
    /\ UNCHANGED <<env, db, busy, rq, log, resp, faults, loop, pools, call>>

IdleKpi(token, dburl, dir) ==
  [op |-> "idle", pc |-> "idle", token |-> token, dburl |-> dburl, dir |-> dir,
   auth |-> <<>>,
   files |-> <<>>, k |-> 0, events |-> <<>>, executed |-> <<>>, result |-> <<>>]

InitKpi ==
  /\ env = [handler |-> "none", files |-> {}, slots |-> {}]
  /\ InitStore(<<>>)
  /\ busy = {} /\ faults = 0 /\ loop = NoLoop /\ call = NoCall
  /\ rq = [r \in Reqs |-> Idle]
  /\ log = [r \in Reqs |-> <<>>]
  /\ resp = [r \in Reqs |-> <<>>]
  /\ pools = [made |-> 0, ended |-> 0]
  /\ \E token \in {<<>>, T_good}, dburl \in BOOLEAN, dir \in Listings \cup {Missing} :
       kpi = IdleKpi(token, dburl, dir)

NextKpi ==
  \/ Reb_Receive \/ Reb_List \/ Reb_Start \/ Reb_Finish
  \/ All_Call \/ All_List \/ All_Start \/ All_Finish
SpecKpi == InitKpi /\ [][NextKpi]_vars

(***************************************************************************)
(* The functions of the handlers called on their own, on every argument up *)
(* to a size.                                                              *)
(***************************************************************************)
\* the longest header text
MaxLen == 4
\* a letter, a capital, a digit, the underscore, a space, a punctuation
\* mark and a letter with a diacritic
Chars == {"a", "A", "1", "_", " ", "-", NTilde}
Texts == UNION {[1..n -> Chars] : n \in 0..MaxLen}

Called(fn, arg, out) == [fn |-> fn, arg |-> arg, out |-> out]

\* header.map(sanitize), for one header
Call_sanitize ==
  /\ call.fn = "sanitize" /\ call.out = <<>>
  /\ call' = [call EXCEPT !.out = <<sanitize(call.arg)>>]
  /\ UNCHANGED <<env, db, busy, rq, log, resp, faults, loop, pools, kpi>>

\* the values of a record's cell and of a bound parameter: a text, null,
\* or undefined (the record has no such key)
Text(t) == [kind |-> "text", text |-> t]
Null == [kind |-> "null", text |-> <<>>]
Undefined == [kind |-> "undefined", text |-> <<>>]
\* the cells a record of the handler hd can hold for a header: only the
\* parser of the handler with rollback admits a record shorter than the
\* header line (relax_column_count), and only the fixed-mapping handler
\* looks up headers the file may lack
CellsOf(hd) ==
  {Text(<<>>), Text(<<"a">>), Text(<<" ">>)}
    \cup (IF hd \in {"reconcile", "fixed"} THEN {Undefined} ELSE {})

\* function toDb(v) { if (v === '') return null; return v; }
toDb(v) == IF v = Text(<<>>) THEN Null ELSE v
\* v ?? null
OrNull(v) == IF v \in {Undefined, Null} THEN Null ELSE v
\* the parameter the handler hd binds for a cell
BoundValue(hd, cell) ==
  CASE hd = "reconcile" -> OrNull(IF cell = Undefined THEN cell ELSE toDb(cell))
    [] hd = "dynamic" -> IF cell = Text(<<>>) THEN Null ELSE cell
    [] hd = "fixed" ->
         IF cell = Undefined THEN Null
         ELSE Text(StripBoth(cell.text, Whitespace))
    [] OTHER -> OrNull(cell)

\* the value bound for one cell of one record
Call_bind ==
  /\ call.fn = "bind" /\ call.out = <<>>
  /\ call' = [call EXCEPT !.out = <<BoundValue(call.arg[1], call.arg[2])>>]
  /\ UNCHANGED <<env, db, busy, rq, log, resp, faults, loop, pools, kpi>>

\* the rows and the columns of the largest INSERT built on its own
MaxRows == 3
MaxWidth == 3

\* the value of row i for column j (0-based), named by its place
Cell(i, j) == <<i, j>>
\* one row of a chunk: its values in column order
RowValues(i, c) == [j \in 1..c |-> Cell(i, j - 1)]

\* the placeholder number left without its base
PlaceholderAt_NoBase(base, j) == j + 1
\* `$${base + j + 1}`
PlaceholderAt(base, j) == base + j + 1

RECURSIVE PushRows(_, _, _, _)
\* slice.forEach of the dynamic-header handler from row i on: the
\* placeholders of a row are numbered from values.length, then the row's
\* values are pushed
PushRows(i, r, c, acc) ==
  IF i = r THEN acc
  ELSE PushRows(i + 1, r, c,
         [ph |-> Append(acc.ph, [j \in 1..c |-> PlaceholderAt(Len(acc.params), j - 1)]),
          params |-> acc.params \o RowValues(i, c)])

\* the placeholders (row by row) and the parameter array of the INSERT the
\* handler hd builds for a chunk of r rows and c columns
InsertSql(hd, r, c) ==
  IF hd = "dynamic" THEN PushRows(0, r, c, [ph |-> <<>>, params |-> <<>>])
  ELSE [ph |-> [i \in 1..r |-> [j \in 1..c |-> PlaceholderAt((i - 1) * c, j - 1)]],
        params |-> Concat([i \in 1..r |-> RowValues(i - 1, c)])]

\* the INSERT statement of one chunk
Call_insert ==
  /\ call.fn = "insert" /\ call.out = <<>>
  /\ call' = [call EXCEPT !.out = <<InsertSql(call.arg[1], call.arg[2], call.arg[3])>>]
  /\ UNCHANGED <<env, db, busy, rq, log, resp, faults, loop, pools, kpi>>

InitCall ==
  /\ env = [handler |-> "none", files |-> {}, slots |-> {}]
  /\ InitStore(<<>>)
  /\ busy = {} /\ faults = 0 /\ loop = NoLoop /\ kpi = NoKpi
  /\ rq = [r \in Reqs |-> Idle]
  /\ log = [r \in Reqs |-> <<>>]
  /\ resp = [r \in Reqs |-> <<>>]
  /\ pools = [made |-> 0, ended |-> 0]
  /\ \/ \E t \in Texts : call = Called("sanitize", t, <<>>)
     \/ \E hd \in Handlers : \E cell \in CellsOf(hd) :
          call = Called("bind", <<hd, cell>>, <<>>)
     \/ \E hd \in Handlers, r \in 1..MaxRows, c \in 1..MaxWidth :
          call = Called("insert", <<hd, r, c>>, <<>>)

NextCall ==
  \/ Call_sanitize
  \/ Call_bind
  \/ Call_insert

SpecCall == InitCall /\ [][NextCall]_vars

(***************************************************************************)
(* Properties.                                                             *)
(***************************************************************************)
Done(r) == rq[r].pc = "done" /\ resp[r] # <<>>
Ok(r) == Done(r) /\ resp[r][1].body.ok
Rows(body) == IF "rows" \in DOMAIN body THEN body.rows ELSE body.inserted
Kinds(r) == [k \in DOMAIN log[r] |-> log[r][k].kind]
Issued(r, kinds) == \E k \in DOMAIN log[r] : log[r][k].kind \in kinds
\* the store failed a statement of r for an outside reason
Faulted(r) == rq[r].err.why \in {"fault", "connection_lost"}

\* t holds every record of f exactly once, in file order, and nothing else
CoversExactly(t, f) ==
  /\ t # <<>>
  /\ t[1].lo = 0 /\ t[Len(t)].hi = f.nrows
  /\ \A k \in DOMAIN t :
       /\ t[k].src = f /\ t[k].lo < t[k].hi
       /\ k < Len(t) => t[k].hi = t[k + 1].lo

\* request r completes its load in this step: it reports success, or its
\* COMMIT succeeds
Succeeds(r) ==
  /\ rq[r].pc # "done"
  /\ \/ rq'[r].pc = "done" /\ resp'[r] # <<>> /\ resp'[r][1].body.ok
     \/ log'[r] = Append(log[r], [kind |-> "COMMIT", ok |-> TRUE])

\* C1 (atomicity of a load): the committed table changes only in the step
\* in which a load completes successfully, and then to exactly the rows of
\* that load's file; so a load with a failing statement leaves the table as
\* it was, and no truncated or partly loaded table is visible to a session.
LoadIsAtomic ==
  [][db.table' # db.table =>
       \E r \in Reqs : Succeeds(r) /\ CoversExactly(db.table', rq[r].file)]_vars

IsPrefix(s, t) == Len(s) <= Len(t) /\ \A k \in DOMAIN s : s[k] = t[k]
NumBatches(n, size) == (n + size - 1) \div size
Protocol(nb) == <<"BEGIN", "TRUNCATE">> \o [k \in 1..nb |-> "INSERT"] \o <<"COMMIT">>
LoadStmts(r) ==
  SelectSeq(Kinds(r), LAMBDA k : k \in {"BEGIN", "TRUNCATE", "INSERT", "COMMIT"})

\* C2 (transaction protocol): the statements a load has issued on its
\* session are, in order, BEGIN, TRUNCATE, the INSERT of batch 1 .. n, COMMIT
\* (a prefix of that sequence while it runs or when it fails), and COMMIT
\* is issued only after every earlier statement has succeeded.
TransactionProtocol ==
  \A r \in Reqs :
    /\ IsPrefix(LoadStmts(r), Protocol(NumBatches(rq[r].file.nrows, batchSize(h))))
    /\ \A k \in DOMAIN log[r] :
         log[r][k].kind = "COMMIT" => \A j \in 1..(k - 1) : log[r][j].ok

\* the file loads into a table of these columns with the reconciling handlers
Loadable(f, columns) ==
  /\ f.nrows > 0 /\ f.first = Len(f.headers)
  /\ \E j \in DOMAIN f.headers : sanitize(f.headers[j]) \in Range(columns)

\* C3 (a failed load does not corrupt later requests): a session that is
\* back in the pool has no open or aborted transaction, and a load of a
\* valid file during which the store fails no statement succeeds, whatever
\* happened to the loads before it.
FailedLoadLeavesPoolClean ==
  /\ \A c \in Conns \ busy : db.txn[c] = "none"
  /\ \A r \in Reqs :
       (h \in {"reconcile", "reconcileKpi"} /\ Done(r) /\ ~ Faulted(r)
          /\ Loadable(rq[r].file, db.columns)) => Ok(r)

\* C4 (snapshot replace): when a load has reported success and no later
\* load has started, the table holds every record of its file exactly once
\* and nothing else, and the reported count is the number of records.
SnapshotReplace ==
  \A r \in Reqs :
    Ok(r) => /\ CoversExactly(db.table, rq[r].file)
             /\ Rows(resp[r][1].body) = rq[r].file.nrows
\* a file of more than one batch has been loaded over the earlier snapshot
SnapshotReplaceWitness ==
  \E r \in Reqs : Ok(r) /\ Len(db.table) > 1 /\ rq[r].file.nrows > batchSize(h)

\* C5 (concurrent loads): when two loads that ran at the same time have
\* both reported success, the table holds exactly the records of one of
\* the two files.
ConcurrentLoadsLastWins ==
  (\A r \in Reqs : Ok(r)) => \E r \in Reqs : CoversExactly(db.table, rq[r].file)

\* the column a header resolves to in the reconciling handlers: the one
\* named like the sanitized header, if insertCols has it
Resolves(r, header, c) == sanitize(header) = c /\ c \in Range(rq[r].plan.cols)
Planned(r) == rq[r].plan # NoPlan

\* C6 (injective column mapping): no two distinct headers of a file resolve
\* to the same destination column.
ColumnMappingInjective ==
  \A r \in Reqs :
    (h \in {"reconcile", "reconcileKpi"} /\ Planned(r)) =>
      \A j, k \in DOMAIN rq[r].file.headers :
        rq[r].file.headers[j] # rq[r].file.headers[k] =>
          ~ \E c \in Range(rq[r].plan.cols) :
              Resolves(r, rq[r].file.headers[j], c) /\ Resolves(r, rq[r].file.headers[k], c)

DigitSeq == <<"1", "2", "3", "4", "5", "6", "7", "8", "9">>
Occurrences(hs, text) == {j \in DOMAIN hs : hs[j] = text}
\* base, base1, .., base(n-1)
NumberedColumns(base, n) == {base} \cup {base \o <<DigitSeq[k]>> : k \in 1..(n - 1)}

\* C7 (duplicate preservation): when a header text occurs n times and the
\* table has the columns base, base1, .., base(n-1), a successful load has
\* bound the cells of every occurrence to one of those columns.
DuplicateHeadersPreserved ==
  \A r \in Reqs :
    (h = "reconcile" /\ Ok(r)) =>
      \A j \in DOMAIN rq[r].file.headers :
        LET hs == rq[r].file.headers
            n == Cardinality(Occurrences(hs, hs[j]))
            targets == NumberedColumns(sanitize(hs[j]), n)
        IN (n > 1 /\ targets \subseteq Range(db.columns)) =>
             \E m \in DOMAIN rq[r].plan.cols :
               rq[r].plan.src[m] = j /\ rq[r].plan.cols[m] \in targets

\* the name the handler looks a header up by in the destination schema
ColumnFor(hd, header) == IF hd = "dynamic" THEN sqlId(header) ELSE sanitize(header)
Unmapped(r) ==
  {t \in Range(rq[r].file.headers) : ColumnFor(h, t) \notin Range(db.columns)}

\* C8 (unmapped-column tolerance): a load of a file with a header that
\* matches a destination column and a header that matches none, during
\* which the store fails no statement, reports success, and its result
\* lists every unmapped header with the reason no-matching-destination-column.
UnmappedColumnsReported ==
  \A r \in Reqs :
    (h \in {"reconcile", "dynamic"} /\ Done(r) /\ ~ Faulted(r)
       /\ rq[r].file.nrows > 0 /\ db.columns # <<>> /\ ~ Rejected(h, rq[r].file)
       /\ Unmapped(r) # {} /\ Unmapped(r) # Range(rq[r].file.headers)) =>
      LET body == resp[r][1].body
      IN /\ body.ok
         /\ "ignored" \in DOMAIN body
         /\ body.ignored = {<<t, "no-matching-destination-column">> : t \in Unmapped(r)}

\* C9 (parameter-limit safety): every INSERT of the batch loop binds at
\* most 60000 parameters and carries at most 1000 rows.
ParameterLimitSafe ==
  \A k \in DOMAIN loop.stmts :
    loop.stmts[k].params <= 60000 /\ loop.stmts[k].rows <= 1000

\* C10 (schema errors precede any transaction): when the catalog query of a
\* load has returned no column, the load has ended with the schema error
\* and has issued no BEGIN, TRUNCATE or INSERT.
SchemaErrorBeforeTransaction ==
  \A r \in Reqs :
    (log[r] # <<>> /\ log[r][1] = [kind |-> "SELECT", ok |-> TRUE]
       /\ rq[r].tableColumns = <<>>) =>
      /\ resp[r] = <<Failure(500, Error("handler", "schema"))>>
      /\ rq[r].pc = "done"
      /\ ~ Issued(r, {"BEGIN", "TRUNCATE", "INSERT"})
\* a load has met a missing table and answered with the schema error
SchemaErrorWitness ==
  \E r \in Reqs :
    /\ log[r] = <<[kind |-> "SELECT", ok |-> TRUE]>>
    /\ db.columns = <<>>
    /\ resp[r] = <<Failure(500, Error("handler", "schema"))>>

\* C11 (no schema change by the engine): no step of a load changes the
\* columns of the destination table (creating it included), and no load
\* issues a CREATE TABLE statement.
NoSchemaChange ==
  [][/\ db.columns' = db.columns
     /\ \A r \in Reqs : \A k \in DOMAIN log'[r] : log'[r][k].kind # "CREATE"]_vars

\* the header t is bound to a destination column by the handler hd
HeaderMaps(hd, t, columns) ==
  CASE hd = "fixed" -> PickKey(t) \in Range(Needles)
    [] hd = "upsert" -> mapColumn(t) \in Range(columns)
    [] OTHER -> ColumnFor(hd, t) \in Range(columns)
NoHeaderMaps(r) ==
  \A t \in Range(rq[r].file.headers) : ~ HeaderMaps(h, t, db.columns)

\* C12 (validation errors do no partial work): a request whose file has no
\* record, or no header that maps to a destination column, has ended with
\* an error result and has issued no BEGIN, TRUNCATE, INSERT or DDL
\* statement, so the table is as it was.
ValidationErrorsDoNoWork ==
  \A r \in Reqs :
    (Done(r) /\ (rq[r].file.nrows = 0 \/ NoHeaderMaps(r))) =>
      /\ ~ resp[r][1].body.ok
      /\ ~ Issued(r, {"BEGIN", "TRUNCATE", "INSERT", "CREATE"})

\* the statements of r that failed inside its transaction
TxnFailures(r) ==
  {k \in DOMAIN log[r] :
     /\ ~ log[r][k].ok
     /\ log[r][k].kind \in {"TRUNCATE", "INSERT", "COMMIT"}
     /\ \E j \in 1..(k - 1) : log[r][j] = [kind |-> "BEGIN", ok |-> TRUE]}

\* C13 (transaction errors are not masked): when a statement inside the
\* load transaction has failed, the request has issued a ROLLBACK after it
\* and the error in its response is the error of that first failing
\* statement, also when the ROLLBACK itself failed.
ErrorsNotMasked ==
  \A r \in Reqs :
    (Done(r) /\ TxnFailures(r) # {}) =>
      LET k == MinOf(TxnFailures(r))
      IN /\ \E j \in (k + 1)..Len(log[r]) : log[r][j].kind = "ROLLBACK"
         /\ ~ resp[r][1].body.ok
         /\ resp[r][1].body.error.stmt = log[r][k].kind

StartedAt(j) == kpi.events[j].ev = "start"
\* the *.sql names of the directory
Artifacts == IF kpi.dir = Missing THEN {} ELSE {f \in Range(kpi.dir) : IsSql(f)}
\* what the caller of the rebuild gets: the response body, or the value
\* rebuildAllKpis returns or throws
Payload(result) == IF "body" \in DOMAIN result THEN result.body ELSE result

\* C14 (KPI ordering): whatever the order of the directory listing, the
\* artifacts start in ascending order of name, an artifact starts only
\* when the one before it has completed, and a rebuild that succeeds has
\* executed every *.sql file of the directory.
KpiInOrder ==
  /\ \A i, j \in DOMAIN kpi.events :
       (i < j /\ StartedAt(i) /\ StartedAt(j)) =>
         Less(kpi.events[i].name, kpi.events[j].name)
  /\ \A j \in DOMAIN kpi.events :
       (StartedAt(j) /\ j > 1) => kpi.events[j - 1].ev = "end"
  /\ (kpi.pc = "done" /\ Payload(kpi.result[1]).ok) =>
       Range(kpi.executed) = Artifacts
\* the listing enumerates 02_carry.sql before 01_plan.sql and both have run
KpiInOrderWitness ==
  /\ kpi.pc = "done" /\ kpi.dir = <<K_02, K_01>>
  /\ kpi.executed = <<K_01, K_02>>

\* C15 (the rebuild stops at the first failure): nothing is executed after
\* an artifact has failed.
KpiStopsAtFailure ==
  \A j \in DOMAIN kpi.events : kpi.events[j].ev = "fail" => j = Len(kpi.events)
\* an artifact has failed while one that sorts after it was still to run
KpiStopsAtFailureWitness ==
  /\ kpi.pc = "done" /\ kpi.events # <<>>
  /\ kpi.events[Len(kpi.events)].ev = "fail"
  /\ \E j \in (kpi.k + 1)..Len(kpi.files) : IsSql(kpi.files[j])

\* C16 (KPI failure reporting): when an artifact has failed, the result
\* given to the caller holds the error and the names of the artifacts that
\* completed before it, in execution order.
KpiFailureReported ==
  (kpi.pc = "done" /\ kpi.events # <<>> /\ kpi.events[Len(kpi.events)].ev = "fail") =>
    LET out == Payload(kpi.result[1])
    IN /\ "error" \in DOMAIN out
       /\ "executed" \in DOMAIN out
       /\ out.executed = kpi.executed

\* request r is at its KPI stage: the handler calls runKpiSql(client)
AtKpiStage(r) == h = "reconcileKpi" /\ rq[r].pc = "kpi"

\* C17 (the KPI stage is after and outside the load transaction): when a
\* request runs its KPI stage, its COMMIT has succeeded and its session is
\* in no transaction.
KpiStageAfterCommit ==
  \A r \in Reqs :
    AtKpiStage(r) =>
      /\ \E k \in DOMAIN log[r] : log[r][k] = [kind |-> "COMMIT", ok |-> TRUE]
      /\ db.txn[rq[r].conn] = "none"

\* C18 (single process-wide pool): the process has constructed at most one
\* connection pool, and no request has ended a pool.
SinglePool == pools.made <= 1 /\ pools.ended = 0

\* C19 (release discipline): no request has released its session twice,
\* and a request that has ended with a session checked out has released it
\* exactly once, whatever its exit path.
ReleasedExactlyOnce ==
  \A r \in Reqs :
    /\ rq[r].released <= 1
    /\ (rq[r].pc = "done" /\ rq[r].conn # 0) => rq[r].released = 1

\* request r has loaded, with success, the file the load before it had
\* loaded with success, against the destination schema that load left
LoadedTwice(r) ==
  /\ Ok(r) /\ rq[r].last.ok
  /\ rq[r].last.file = rq[r].file
  /\ rq[r].last.columns = db.columns

\* C20 (idempotence of a load): after the second of two successive loads
\* of the same file against the same destination schema, the table has as
\* many rows as after the first, and the same headers were ignored.
LoadIdempotent ==
  \A r \in Reqs :
    LoadedTwice(r) =>
      /\ TableRows(db.table) = rq[r].last.count
      /\ IgnoredHeaders(rq[r].file, rq[r].plan) = rq[r].last.ignored
\* the schema-reconciling handler has loaded twice a file with a header it
\* ignores
LoadIdempotentWitness ==
  \E r \in Reqs :
    /\ h = "reconcile" /\ LoadedTwice(r)
    /\ rq[r].last.ignored # {} /\ rq[r].last.count > 0

\* the characters [a-z0-9]
AlphaNum == LowerAlpha \cup Digits
\* the text the column-name rule gives for the header t: trimmed, without
\* diacritics, lower-cased, every maximal run of characters outside [a-z0-9]
\* one "_", no "_" at either end
SnakeCase(t) ==
  StripBoth(ReplaceRuns(ToLower(StripMarks(Nfkd(StripBoth(t, Whitespace)))),
                        AlphaNum, <<"_">>),
            {"_"})

\* C21 (sanitize matches its specification): the result of sanitize is the
\* snake-case text of its argument; it has only characters of [a-z0-9_], no
\* two adjacent underscores, and no underscore at either end.
SanitizeMeetsSpec ==
  (call.fn = "sanitize" /\ call.out # <<>>) =>
    LET out == call.out[1]
    IN /\ out = SnakeCase(call.arg)
       /\ \A k \in DOMAIN out : out[k] \in WordChars
       /\ \A k \in 1..(Len(out) - 1) : ~ (out[k] = "_" /\ out[k + 1] = "_")
       /\ out # <<>> => (out[1] # "_" /\ out[Len(out)] # "_")

\* C24 (empty string becomes null): the value bound for a cell is null or a
\* non-empty text; it is null for an empty cell and for a missing cell, and
\* the cell's text otherwise.
EmptyBoundAsNull ==
  (call.fn = "bind" /\ call.out # <<>>) =>
    LET cell == call.arg[2]
        out == call.out[1]
    IN /\ out = Null \/ (out.kind = "text" /\ out.text # <<>>)
       /\ out = IF cell \in {Undefined, Text(<<>>)} THEN Null ELSE cell

\* C25 (placeholder and parameter alignment): an INSERT of r rows and c
\* columns has r*c parameters, uses each of the placeholders 1 .. r*c
\* exactly once, and its placeholder at row i, column j (0-based) is
\* i*c + j + 1 and is bound to the value of row i for column j.
PlaceholdersAligned ==
  (call.fn = "insert" /\ call.out # <<>>) =>
    LET r == call.arg[2]
        c == call.arg[3]
        ph == call.out[1].ph
        params == call.out[1].params
    IN /\ Len(params) = r * c
       /\ Len(ph) = r /\ \A i \in 1..r : Len(ph[i]) = c
       /\ \A k \in 1..(r * c) :
            Cardinality({p \in (1..r) \X (1..c) : ph[p[1]][p[2]] = k}) = 1
       /\ \A i \in 0..(r - 1), j \in 0..(c - 1) :
            /\ ph[i + 1][j + 1] = i * c + j + 1
            /\ params[ph[i + 1][j + 1]] = Cell(i, j)
\* an INSERT of several rows and several columns has been built
PlaceholdersAlignedWitness ==
  /\ call.fn = "insert" /\ call.out # <<>>
  /\ call.arg[2] = MaxRows /\ call.arg[3] > 1
  /\ call.out[1].ph[MaxRows][2] = (MaxRows - 1) * call.arg[3] + 2

\* the batch loop has ended
LoopEnded == loop.handler \in Handlers /\ loop.i >= loop.n

\* C23 (batching covers the rows exactly once and in order): the batches
\* are contiguous slices of the row list in ascending order starting at
\* row 0, none is empty or reaches past the last row, every INSERT names
\* the same column list, and when the loop has ended the batches cover
\* all n rows and the inserted counter is n.
BatchesCoverRows ==
  /\ \A k \in DOMAIN loop.stmts :
       LET st == loop.stmts[k]
       IN /\ st.rows > 0
          /\ st.lo = IF k = 1 THEN 0 ELSE loop.stmts[k - 1].lo + loop.stmts[k - 1].rows
          /\ st.lo + st.rows <= loop.n
          /\ st.cols = loop.stmts[1].cols
  /\ LoopEnded =>
       /\ loop.total = loop.n
       /\ loop.n > 0 =>
            LET last == loop.stmts[Len(loop.stmts)]
            IN last.lo + last.rows = loop.n
\* a loop of several batches has ended with a last batch that is not full
BatchesCoverRowsWitness ==
  /\ LoopEnded /\ Len(loop.stmts) > 1
  /\ loop.stmts[Len(loop.stmts)].rows < batchSize(loop.handler)

\* the discovered columns named like the sanitized form of a header of f
Matching(tableColumns, f) ==
  SelectSeq(tableColumns, LAMBDA c : \E j \in DOMAIN f.headers : sanitize(f.headers[j]) = c)

\* C26 (insert columns come from the discovered schema): in the
\* schema-reconciling load the column list of the INSERTs has no duplicate
\* and is, in the catalog's order, exactly the discovered columns whose
\* name is the sanitized form of some header of the file.
InsertColsFromSchema ==
  \A r \in Reqs :
    (h \in {"reconcile", "reconcileKpi"} /\ Issued(r, {"INSERT"})) =>
      /\ NoDup(rq[r].plan.cols)
      /\ rq[r].plan.cols = Matching(rq[r].tableColumns, rq[r].file)

\* C27 (success is reported only after commit): a request that has
\* reported success has issued a COMMIT that succeeded, every INSERT it
\* issued succeeded, and it issued no ROLLBACK.
SuccessOnlyAfterCommit ==
  \A r \in Reqs :
    Ok(r) =>
      /\ \E k \in DOMAIN log[r] : log[r][k] = [kind |-> "COMMIT", ok |-> TRUE]
      /\ \A k \in DOMAIN log[r] : log[r][k].kind = "INSERT" => log[r][k].ok
      /\ ~ Issued(r, {"ROLLBACK"})

\* the request of the rebuild endpoint presents the configured token
PresentsToken == kpi.auth = Bearer \o kpi.token

\* C28 (KPI rebuild endpoint authorization): with a token configured, a
\* request whose Authorization header is not "Bearer " followed by the
\* token has got 401 and no artifact was listed, read or executed; an
\* artifact is read or executed only for a request that presents the
\* token, or with no token configured.
KpiAuthorized ==
  kpi.op = "handler" =>
    /\ (kpi.token # <<>> /\ ~ PresentsToken) =>
         /\ kpi.pc = "done" /\ kpi.result = <<Failure(401, Error("handler", "unauthorized"))>>
         /\ kpi.files = <<>> /\ kpi.events = <<>> /\ kpi.executed = <<>>
    /\ (kpi.events # <<>> \/ kpi.executed # <<>>) => (kpi.token = <<>> \/ PresentsToken)
\* a request with a wrong token has been refused, and one with the token
\* alone, without "Bearer "
KpiAuthorizedWitness ==
  /\ kpi.op = "handler" /\ kpi.token = T_good /\ kpi.pc = "done"
  /\ kpi.auth \in {Bearer \o T_bad, T_good}
  /\ kpi.result[1].status = 401

\* request r has arrived and has not been answered
InFlight(r) == rq[r].pc \notin {"idle", "done"}
\* the statement request r awaits does not return: it waits for the table
\* lock
Waits(r) ==
  \/ rq[r].pc = "truncate" /\ Blocked(db, rq[r].conn, "TRUNCATE")
  \/ rq[r].pc = "insert" /\ Blocked(db, rq[r].conn, "INSERT")
\* a response with a success flag, and with an error when the flag is false
Structured(response) ==
  /\ "ok" \in DOMAIN response.body
  /\ ~ response.body.ok =>
       ("error" \in DOMAIN response.body /\ response.body.error # NoError)

\* C22 (every request ends with a structured result): no request has sent
\* two responses, a request that has ended has sent exactly one, with a
\* success flag and an error when the flag is false, and, unless a database
\* call of it never returns, every request that has arrived is answered.
AlwaysResponds ==
  /\ [](\A r \in Reqs :
          /\ Len(resp[r]) <= 1
          /\ \A k \in DOMAIN resp[r] : Structured(resp[r][k])
          /\ rq[r].pc = "done" => Len(resp[r]) = 1)
  /\ \A r \in Reqs : (<>[]Waits(r)) \/ (InFlight(r) ~> Done(r))
\* a load that failed inside its transaction has been answered, once
AlwaysRespondsWitness ==
  \E r \in Reqs :
    /\ Done(r) /\ ~ Ok(r) /\ Issued(r, {"TRUNCATE"})
    /\ Len(resp[r]) = 1
====
